---- MODULE Spec2Model ----
(***************************************************************************)
(* Model of migrate-charts.py: a sequential script that lists the tags of  *)
(* each configured chart, keeps the tags classified as Helm charts,        *)
(* pulls and pushes each of them, and reports per-chart results.           *)
(*                                                                         *)
(* The external tools (helm, skopeo, the Docker Hub tags API, the file     *)
(* system) are the environment: every call draws its outcome from the set  *)
(* of outcomes the call can have.  A file name "a-b-1.0.0.tgz" is the      *)
(* sequence of its dash-separated segments <<"a","b","1.0.0">>, so that    *)
(* glob patterns are computed on names, as glob.glob does.                 *)
(***************************************************************************)
EXTENDS Naturals, Sequences, FiniteSets, TLC

\* ------------------------------------------------------------- bounds
NumCharts == 2

\* ------------------------------------------------------ configuration
\* Chart names, as dash-separated segments ("app", "app-db", "web").
ChartPool == << <<"app">>, <<"app", "db">>, <<"web">> >>
CHARTS == SubSeq(ChartPool, 1, IF NumCharts < 3 THEN NumCharts ELSE 3)

\* The tags a repository may hold, in the order the registry lists them.
TagPool == <<"1.0.0", "2.0.0">>
Tags == {TagPool[i] : i \in 1..Len(TagPool)}

\* An entry of the tags API without a "name" field.
NoName == "<no-name>"

\* What `skopeo list-tags` can report in its Tags array.
TagLists == {SubSeq(TagPool, 1, n) : n \in 0..Len(TagPool)}
\* What the tags API can report in `results` (an entry may lack its name).
ApiLists ==
    TagLists \cup UNION {{[s EXCEPT ![i] = NoName] : i \in 1..Len(s)} : s \in TagLists}

\* The file helm pull writes for a chart: <chart>-<chart version>.tgz.
ArchiveName(chart, ver) == Append(chart, ver)

\* Archives a previous, interrupted run may have left in the directory.
StrayFiles == {ArchiveName(CHARTS[1], "1.0.0")}

\* --------------------------------------------- the probes' environment
\* An outcome of the `helm pull` of the pull-probe: the exception it raised,
\* whether it exited zero, whether a .tgz is in the scratch directory, and
\* whether its error text holds one of the "not a chart" phrases.
PullAnswers ==
    {[exc |-> "none", rc0 |-> r, tgz |-> t, phrase |-> p] :
        r \in BOOLEAN, t \in BOOLEAN, p \in BOOLEAN}
    \cup {[exc |-> e, rc0 |-> FALSE, tgz |-> FALSE, phrase |-> FALSE] :
             e \in {"TimeoutExpired", "OSError", "kbint"}}

\* The value of one helm indicator label: absent, holding "helm"/"chart",
\* or holding neither.
LabelVals == {"absent", "helmish", "plain"}

\* An outcome of `skopeo inspect`: exception, exit status, the shape of its
\* JSON, and the fields the probe reads.  config is absent, null, without
\* Env and Cmd ("plain"), or with one of them ("env").
InspectAnswers ==
    {[exc |-> "none", rc0 |-> TRUE, json |-> "dict", media |-> m, top |-> t,
      cfg |-> c, cfgLabel |-> cl, layers |-> n, digest |-> d] :
        m \in BOOLEAN, t \in LabelVals, c \in {"absent", "null", "plain", "env"},
        cl \in LabelVals, n \in {1, 2}, d \in BOOLEAN}
    \cup {[exc |-> e, rc0 |-> r, json |-> j, media |-> FALSE, top |-> "absent",
            cfg |-> "absent", cfgLabel |-> "absent", layers |-> 2, digest |-> FALSE] :
             e \in {"none", "TimeoutExpired", "kbint"}, r \in BOOLEAN,
             j \in {"bad", "nondict"}}

\* An outcome of `skopeo copy --dry-run`: exception, exit status, and whether
\* the error text holds "unsupported" or "invalid".
CopyAnswers ==
    {[exc |-> e, rc0 |-> r, typed |-> u] :
        e \in {"none", "TimeoutExpired", "kbint"}, r \in BOOLEAN, u \in BOOLEAN}

NoCls == [tag |-> "", pull |-> "unasked", inspect |-> "unasked", copy |-> "unasked",
          verdict |-> "none"]

VARIABLES
    pc,              \* position of the single thread of control
    skopeoPresent,   \* environment: the skopeo binary is on the PATH
    deps,            \* history: outcome of check_dependencies
    preCleaned,      \* history: run_migration's cleanup (line 465) has run
    interrupted,     \* history: a KeyboardInterrupt has been delivered
    ci,              \* index in CHARTS of the chart being migrated
    all_tags,        \* the tags of the listing being filtered
    idx,             \* index in all_tags of the tag being classified
    helm_versions,   \* tags accepted so far by the running filter
    probe,           \* the probe _is_helm_chart is at
    cls,             \* history: the probes' answers in the running classification
    versions,        \* migrate_chart's versions
    vi,              \* index in versions of the tag being transferred
    success_count,   \* migrate_chart's success_count
    calls,           \* history: the calls of migrate_chart_version made by the
                     \* running migrate_chart, with what each returned
    results,         \* run_migration's results
    files,           \* archives in the working directory
    last,            \* history: what the last step did
    exitCode         \* the process's exit status ("running" until it exits)

vars == <<pc, skopeoPresent, deps, preCleaned, interrupted, ci,
          all_tags, idx, helm_versions, probe, cls, versions, vi,
          success_count, calls, results, files, last, exitCode>>

NoLast == [op |-> "none"]

ctlVars == <<all_tags, idx, helm_versions, probe, versions, vi, success_count,
             calls>>

Init ==
    /\ pc = "construct"
    /\ skopeoPresent \in BOOLEAN
    /\ deps = "unchecked"
    /\ preCleaned = FALSE
    /\ interrupted = FALSE
    /\ ci = 0
    /\ all_tags = <<>>
    /\ idx = 0
    /\ helm_versions = <<>>
    /\ probe = "none"
    /\ cls = NoCls
    /\ versions = <<>>
    /\ vi = 0
    /\ success_count = 0
    /\ calls = <<>>
    /\ results = <<>>
    /\ files \in SUBSET StrayFiles
    /\ last = NoLast
    /\ exitCode = "running"

\* An exception or an interrupt that leaves run_migration reaches main's
\* handlers (lines 537-544).
\* The frames of run_migration and below are unwound: their locals are gone.
Raise(kind) ==
    /\ pc' = IF kind = "kbint" THEN "except_kbint" ELSE "except_exception"
    /\ ci' = 0
    /\ all_tags' = <<>>
    /\ idx' = 0
    /\ helm_versions' = <<>>
    /\ probe' = "none"
    /\ versions' = <<>>
    /\ vi' = 0
    /\ success_count' = 0
    /\ calls' = <<>>
    /\ results' = <<>>

\* __init__ and _get_helm_version: both attempts sit in a bare `except:`,
\* which also takes a KeyboardInterrupt.
Construct ==
    /\ pc = "construct"
    /\ \E a1 \in {"ok", "fail", "kbint"}, a2 \in {"ok", "fail", "kbint"} :
          /\ interrupted' = (a1 = "kbint" \/ (a1 # "ok" /\ a2 = "kbint"))
          /\ last' = [op |-> "construct",
                      helm_version |-> IF a1 = "ok" \/ a2 = "ok" THEN "v3"
                                       ELSE "unknown"]
    /\ pc' = "check_deps"
    /\ UNCHANGED <<skopeoPresent, deps, preCleaned, ci, results, files, cls, exitCode>>
    /\ UNCHANGED ctlVars

\* What check_dependencies returns for an outcome of `helm version`.
check_dependencies(a) ==
    IF a = "ok" THEN "true"
    ELSE IF a \in {"CalledProcessError", "FileNotFoundError"} THEN "false"
    ELSE IF a = "kbint" THEN "kbint"
    ELSE "raise"

\* A run_migration that goes on after a failed dependency check.
DependencyGateNoExit(r) ==
    IF r \in {"true", "false"}
    THEN /\ pc' = "pre_cleanup"
         /\ UNCHANGED <<exitCode, ci, results>>
         /\ UNCHANGED ctlVars
    ELSE Raise(r) /\ UNCHANGED exitCode

\* run_migration, lines 461-462: sys.exit(1) unless the check returned True.
\* SystemExit is no Exception: main's handlers let it through.
DependencyGate(r) ==
    IF r = "true"
    THEN /\ pc' = "pre_cleanup"
         /\ UNCHANGED <<exitCode, ci, results>>
         /\ UNCHANGED ctlVars
    ELSE IF r = "false"
    THEN /\ pc' = "exited"
         /\ exitCode' = "1"
         /\ UNCHANGED <<ci, results>>
         /\ UNCHANGED ctlVars
    ELSE Raise(r) /\ UNCHANGED exitCode

\* run_migration, lines 460-462, with check_dependencies.
CheckDependencies ==
    /\ pc = "check_deps"
    /\ \E a \in {"ok", "CalledProcessError", "FileNotFoundError", "OSError", "kbint"} :
          LET r == check_dependencies(a) IN
          /\ last' = [op |-> "check_dependencies", ret |-> r]
          /\ deps' = r
          /\ interrupted' = (interrupted \/ r = "kbint")
          /\ DependencyGate(r)
    /\ UNCHANGED <<skopeoPresent, preCleaned, files, cls>>

\* cleanup_local_files, lines 321-334: what may be left of the archives fs.
\* Every archive is removed, unless os.remove raises OSError (the directory
\* does not allow it), which is swallowed.
cleanup_local_files(fs) == {{}, fs}

\* run_migration, line 465: the cleanup before the first chart.
PreCleanup ==
    /\ pc = "pre_cleanup"
    /\ \E kept \in cleanup_local_files(files), a \in {"ok", "kbint"} :
          /\ files' = kept
          /\ last' = [op |-> "cleanup", site |-> "pre_run"]
          /\ interrupted' = (interrupted \/ a = "kbint")
          /\ IF a = "ok"
             THEN /\ preCleaned' = TRUE
                  /\ pc' = "list_skopeo"
                  /\ ci' = 1
                  /\ UNCHANGED results
                  /\ UNCHANGED ctlVars
             ELSE /\ Raise("kbint")
                  /\ UNCHANGED preCleaned
    /\ UNCHANGED <<skopeoPresent, deps, cls, exitCode>>

\* main, lines 537-540: cleanup, then exit status 1.
ExceptKeyboardInterrupt ==
    /\ pc = "except_kbint"
    /\ \E kept \in cleanup_local_files(files) : files' = kept
    /\ last' = [op |-> "cleanup", site |-> "except_kbint"]
    /\ pc' = "exited"
    /\ exitCode' = "1"
    /\ cls' = NoCls
    /\ UNCHANGED <<skopeoPresent, deps, preCleaned, interrupted, ci, results>>
    /\ UNCHANGED ctlVars

\* main, lines 541-544: cleanup, then exit status 1.
ExceptException ==
    /\ pc = "except_exception"
    /\ \E kept \in cleanup_local_files(files) : files' = kept
    /\ last' = [op |-> "cleanup", site |-> "except_exception"]
    /\ pc' = "exited"
    /\ exitCode' = "1"
    /\ cls' = NoCls
    /\ UNCHANGED <<skopeoPresent, deps, preCleaned, interrupted, ci, results>>
    /\ UNCHANGED ctlVars

\* ------------------------------------------------------ the classifier
\* _verify_helm_with_pull_temp, lines 161-204: what the try block yields.
\* OSError is tempfile.mkdtemp failing, which no except clause takes.
verify_helm_with_pull_temp(a) ==
    IF a.exc = "kbint" THEN "kbint"
    ELSE IF a.exc = "OSError" THEN "raise"
    ELSE IF a.exc = "TimeoutExpired" THEN "false"
    ELSE IF a.rc0 /\ a.tgz THEN "true"
    ELSE IF a.phrase THEN "false"
    ELSE "false"

\* The signal of the pull-probe, lines 180-200: the pull succeeded and left
\* an archive; it failed with one of the "not a chart" phrases (lines
\* 188-196); it raised; or anything else (lines 198-200).
PullSignal(a) ==
    IF a.exc # "none" THEN a.exc
    ELSE IF a.rc0 /\ a.tgz THEN "positive"
    ELSE IF ~a.rc0 /\ a.phrase THEN "confident_negative"
    ELSE "ambiguous"

\* {**labels, **config_labels}, line 235: config's label wins.
all_labels(top, cfgLabel) == IF cfgLabel # "absent" THEN cfgLabel ELSE top

\* _check_helm_labels, lines 284-302.
check_helm_labels(l) == l = "helmish"

\* _looks_like_helm_digest, lines 304-319.
looks_like_helm_digest(a) == a.layers = 1 /\ a.cfg = "plain"

\* _verify_helm_with_skopeo, lines 213-255.  FileNotFoundError (skopeo is
\* missing) and AttributeError (the JSON is no object, or config is null)
\* are in no except clause.
verify_helm_with_skopeo(present, a) ==
    IF ~present THEN "FileNotFoundError"
    ELSE IF a.exc = "kbint" THEN "kbint"
    ELSE IF a.exc = "TimeoutExpired" THEN "false"
    ELSE IF ~a.rc0 THEN "false"
    ELSE IF a.json = "bad" THEN "false"
    ELSE IF a.json = "nondict" THEN "raise"
    ELSE IF a.media THEN "true"
    ELSE IF a.cfg = "null" THEN "raise"
    ELSE IF check_helm_labels(all_labels(a.top, a.cfgLabel)) THEN "true"
    ELSE IF a.layers = 1 THEN "true"
    ELSE IF a.digest /\ looks_like_helm_digest(a) THEN "true"
    ELSE "false"

\* _verify_helm_oci_structure, lines 257-282.
verify_helm_oci_structure(present, a) ==
    IF ~present THEN "FileNotFoundError"
    ELSE IF a.exc = "kbint" THEN "kbint"
    ELSE IF a.exc = "TimeoutExpired" THEN "false"
    ELSE IF a.rc0 THEN "true"
    ELSE IF a.typed THEN "false"
    ELSE "false"

\* ------------------------------------------- the orchestrator's control
\* run_migration, lines 469-471: the result is appended and the loop moves
\* to the next chart, or to the summary after the last one.
FinishChart(res) ==
    /\ results' = Append(results, res)
    /\ IF ci < Len(CHARTS)
       THEN pc' = "list_skopeo" /\ ci' = ci + 1
       ELSE pc' = "report" /\ ci' = ci
    /\ all_tags' = <<>>
    /\ idx' = 0
    /\ helm_versions' = <<>>
    /\ probe' = "none"
    /\ versions' = <<>>
    /\ vi' = 0
    /\ success_count' = 0
    /\ calls' = <<>>

\* migrate_chart, lines 396-403: what follows get_chart_versions.
AfterListing(vs) ==
    IF vs = <<>>
    THEN FinishChart([chart |-> CHARTS[ci], total |-> 0, success |-> 0,
                      status |-> "no_helm_versions"])
    ELSE /\ pc' = "transfer"
         /\ versions' = vs
         /\ vi' = 1
         /\ success_count' = 0
         /\ calls' = <<>>
         /\ all_tags' = <<>>
         /\ idx' = 0
         /\ helm_versions' = <<>>
         /\ probe' = "none"
         /\ UNCHANGED <<ci, results>>

\* get_chart_versions, lines 59-60: method 1 gave None or [].
ToListApi ==
    /\ pc' = "list_api"
    /\ all_tags' = <<>>
    /\ idx' = 0
    /\ helm_versions' = <<>>
    /\ probe' = "none"
    /\ UNCHANGED <<ci, versions, vi, success_count, calls, results>>

\* get_chart_versions, lines 64-66: method 2 gave None or [].
ToFallback ==
    /\ pc' = "fallback"
    /\ all_tags' = <<>>
    /\ idx' = 0
    /\ helm_versions' = <<>>
    /\ probe' = "pull"
    /\ UNCHANGED <<ci, versions, vi, success_count, calls, results>>

\* _get_helm_versions_with_skopeo, lines 93-102, and lines 55-57: the loop
\* is at tag i of tags with hv accepted; past the last tag it returns hv.
EnterSkopeo(tags, i, hv) ==
    IF i > Len(tags)
    THEN IF hv # <<>> THEN AfterListing(hv) ELSE ToListApi
    ELSE /\ pc' = "filter_skopeo"
         /\ all_tags' = tags
         /\ idx' = i
         /\ helm_versions' = hv
         /\ probe' = "pull"
         /\ UNCHANGED <<ci, versions, vi, success_count, calls, results>>

\* _get_helm_versions_with_api, lines 124-134, and lines 60-62: an entry
\* without "name" raises KeyError, which makes the method return None.
EnterApi(tags, i, hv) ==
    IF i > Len(tags)
    THEN IF hv # <<>> THEN AfterListing(hv) ELSE ToFallback
    ELSE IF tags[i] = NoName
    THEN ToFallback
    ELSE /\ pc' = "filter_api"
         /\ all_tags' = tags
         /\ idx' = i
         /\ helm_versions' = hv
         /\ probe' = "pull"
         /\ UNCHANGED <<ci, versions, vi, success_count, calls, results>>

\* A fallback that returns "latest" without heeding the classifier.
fallback_versions_unchecked(v) == <<"latest">>

\* get_chart_versions, lines 66-70: the fallback's answer.
fallback_versions(v) == IF v = "true" THEN <<"latest">> ELSE <<>>

\* The tag _is_helm_chart is asked about.
CurrentTag == IF pc = "fallback" THEN "latest" ELSE all_tags[idx]

\* _is_helm_chart returned v to its caller (lines 95-99, 128-129, 66-70).
ClassifyDone(v) ==
    LET hv == IF v = "true" THEN Append(helm_versions, all_tags[idx])
              ELSE helm_versions
    IN  IF pc = "filter_skopeo" THEN EnterSkopeo(all_tags, idx + 1, hv)
        ELSE IF pc = "filter_api" THEN EnterApi(all_tags, idx + 1, hv)
        ELSE AfterListing(fallback_versions(v))

\* _is_helm_chart raised: method 1 takes FileNotFoundError (line 107) and
\* returns None; nothing else on the way to main takes anything.
ClassifyRaise(kind) ==
    IF pc = "filter_skopeo" /\ kind = "FileNotFoundError"
    THEN ToListApi
    ELSE Raise(kind)

envVars == <<skopeoPresent, deps, preCleaned, exitCode>>

\* get_chart_versions, line 55, and _get_helm_versions_with_skopeo, lines
\* 74-88 and 104-112: `skopeo list-tags`.  "nondict" is output that parses
\* but is no object with a list of Tags (Tags is null, say): line 87 or 93
\* raises AttributeError or TypeError, which no except clause takes.
ListSkopeo ==
    /\ pc = "list_skopeo"
    /\ \E k \in {"ok", "CalledProcessError", "JSONDecodeError", "nondict", "kbint"},
          tags \in TagLists :
          /\ k # "ok" => tags = <<>>
          /\ ~skopeoPresent => k = "CalledProcessError"
          /\ last' = [op |-> "list_skopeo",
                      outcome |-> IF skopeoPresent THEN k ELSE "FileNotFoundError"]
          /\ interrupted' = (interrupted \/ k = "kbint")
          /\ IF ~skopeoPresent \/ k \in {"CalledProcessError", "JSONDecodeError"}
             THEN ToListApi
             ELSE IF k = "ok" THEN EnterSkopeo(tags, 1, <<>>)
             ELSE Raise(IF k = "kbint" THEN "kbint" ELSE "raise")
    /\ cls' = NoCls
    /\ UNCHANGED files
    /\ UNCHANGED envVars

\* _get_helm_versions_with_api, lines 116-123 and 132-134: the tags API.
ListApi ==
    /\ pc = "list_api"
    /\ \E k \in {"ok", "RequestException", "not200", "JSONDecodeError", "nondict",
                 "kbint"},
          tags \in ApiLists :
          /\ k # "ok" => tags = <<>>
          /\ last' = [op |-> "list_api", outcome |-> k]
          /\ interrupted' = (interrupted \/ k = "kbint")
          /\ IF k \in {"RequestException", "not200", "JSONDecodeError"}
             THEN ToFallback
             ELSE IF k = "ok" THEN EnterApi(tags, 1, <<>>)
             ELSE Raise(IF k = "kbint" THEN "kbint" ELSE "raise")
    /\ cls' = NoCls
    /\ UNCHANGED files
    /\ UNCHANGED envVars

Classifying == pc \in {"filter_skopeo", "filter_api", "fallback"}

\* _is_helm_chart, lines 140-143, with _verify_helm_with_pull_temp and its
\* finally clause (lines 205-211), whose bare except takes whatever rmtree
\* raises.
PullProbe ==
    /\ Classifying
    /\ probe = "pull"
    /\ \E a \in PullAnswers, rm \in {"ok", "OSError", "kbint"} :
          LET r == verify_helm_with_pull_temp(a) IN
          /\ a.exc = "OSError" => rm = "ok"
          /\ cls' = [tag |-> CurrentTag, pull |-> PullSignal(a), inspect |-> "unasked",
                     copy |-> "unasked", verdict |-> IF r = "false" THEN "none" ELSE r]
          /\ interrupted' = (interrupted \/ r = "kbint" \/ rm = "kbint")
          /\ last' = [op |-> "pull_probe", ret |-> r]
          /\ IF r = "true" THEN ClassifyDone("true")
             ELSE IF r = "false"
             THEN /\ probe' = "inspect"
                  /\ UNCHANGED <<pc, ci, all_tags, idx, helm_versions, versions, vi,
                                 success_count, calls, results>>
             ELSE ClassifyRaise(r)
    /\ UNCHANGED files
    /\ UNCHANGED envVars

\* _is_helm_chart, lines 145-148, with _verify_helm_with_skopeo.
InspectProbe ==
    /\ Classifying
    /\ probe = "inspect"
    /\ \E r \in {verify_helm_with_skopeo(skopeoPresent, a) : a \in InspectAnswers} :
          /\ cls' = [cls EXCEPT !.inspect = r,
                                !.verdict = IF r = "false" THEN "none" ELSE r]
          /\ interrupted' = (interrupted \/ r = "kbint")
          /\ last' = [op |-> "inspect_probe", ret |-> r]
          /\ IF r = "true" THEN ClassifyDone("true")
             ELSE IF r = "false"
             THEN /\ probe' = "copy"
                  /\ UNCHANGED <<pc, ci, all_tags, idx, helm_versions, versions, vi,
                                 success_count, calls, results>>
             ELSE ClassifyRaise(r)
    /\ UNCHANGED files
    /\ UNCHANGED envVars

\* _is_helm_chart, lines 150-156, with _verify_helm_oci_structure.
CopyProbe ==
    /\ Classifying
    /\ probe = "copy"
    /\ \E r \in {verify_helm_oci_structure(skopeoPresent, a) : a \in CopyAnswers} :
          /\ cls' = [cls EXCEPT !.copy = r, !.verdict = r]
          /\ interrupted' = (interrupted \/ r = "kbint")
          /\ last' = [op |-> "copy_probe", ret |-> r]
          /\ IF r \in {"true", "false"} THEN ClassifyDone(r)
             ELSE ClassifyRaise(r)
    /\ UNCHANGED files
    /\ UNCHANGED envVars

\* ---------------------------------------------------------- the transfer
\* glob.glob(f"{chart}-{version}.tgz"), line 357.
GlobExact(chart, version, fs) == {f \in fs : f = ArchiveName(chart, version)}

\* glob.glob(f"{chart}-*.tgz"), line 357: every name that starts with the
\* chart's name and a dash.
GlobLoose(chart, fs) ==
    {f \in fs : Len(f) > Len(chart) /\ SubSeq(f, 1, Len(chart)) = chart}

\* chart_files, line 357.
ChartFiles(chart, version, fs) ==
    IF GlobExact(chart, version, fs) # {} THEN GlobExact(chart, version, fs)
    ELSE GlobLoose(chart, fs)

\* The names `helm pull` may give the archive of a chart: its tag, or the
\* version its Chart.yaml states.
PullProducts(chart, version) ==
    {<<>>} \cup {ArchiveName(chart, v) : v \in Tags \cup {version}}

\* The directory after the pull of line 348.
AfterPull(fs, pull, produced) ==
    IF pull = "ok" /\ produced # <<>> THEN fs \cup {produced} ELSE fs

\* A migrate_chart_version that does not look at the push's exit status.
migrate_chart_version_push_unchecked(pull, found, push) ==
    IF pull = "kbint" THEN "kbint"
    ELSE IF pull \in {"raise", "nonzero"} THEN "false"
    ELSE IF ~found THEN "false"
    ELSE IF push = "kbint" THEN "kbint"
    ELSE IF push = "raise" THEN "false"
    ELSE "true"

\* migrate_chart_version, lines 340-389: what it returns, from the outcome
\* of the pull, whether a local archive was found, and the outcome of the
\* push.  KeyboardInterrupt is no Exception: line 387 does not take it.
migrate_chart_version(pull, found, push) ==
    IF pull = "kbint" THEN "kbint"
    ELSE IF pull = "raise" THEN "false"
    ELSE IF pull = "nonzero" THEN "false"
    ELSE IF ~found THEN "false"
    ELSE IF push = "kbint" THEN "kbint"
    ELSE IF push = "raise" THEN "false"
    ELSE IF push = "nonzero" THEN "false"
    ELSE "true"

\* The directory when migrate_chart_version is left: os.remove (lines
\* 374-377) runs when the push call returned, whatever its exit status.
AfterTransfer(fs, pull, chosen, push, rm) ==
    IF pull = "ok" /\ chosen # <<>> /\ push \in {"ok", "nonzero"} /\ rm = "ok"
    THEN fs \ {chosen}
    ELSE fs

\* A loop that a failed transfer breaks out of.
LoopStepBreakOnFailure(version, ret) ==
    /\ success_count' = IF ret = "true" THEN success_count + 1 ELSE success_count
    /\ calls' = Append(calls, [tag |-> version, ret |-> ret])
    /\ IF vi < Len(versions) /\ ret = "true"
       THEN vi' = vi + 1 /\ pc' = "transfer"
       ELSE vi' = vi /\ pc' = "summarize"
    /\ UNCHANGED <<ci, all_tags, idx, helm_versions, probe, versions, results>>

\* migrate_chart, lines 405-412: migrate_chart_version(chart, version) has
\* returned ret and the pause has passed; the count is kept and the for
\* loop goes to the next version, or past the last one to line 414.
LoopStep(version, ret) ==
    /\ success_count' = IF ret = "true" THEN success_count + 1 ELSE success_count
    /\ calls' = Append(calls, [tag |-> version, ret |-> ret])
    /\ IF vi < Len(versions)
       THEN vi' = vi + 1 /\ pc' = "transfer"
       ELSE vi' = vi /\ pc' = "summarize"
    /\ UNCHANGED <<ci, all_tags, idx, helm_versions, probe, versions, results>>

\* migrate_chart, lines 405-412: one tag of the loop, with the pause.
Transfer ==
    /\ pc = "transfer"
    /\ LET chart == CHARTS[ci]
           version == versions[vi]
       IN \E pull \in {"ok", "nonzero", "raise", "kbint"},
             produced \in PullProducts(chart, version),
             push \in {"ok", "nonzero", "raise", "kbint"},
             rm \in {"ok", "OSError"},
             sleep \in {"ok", "kbint"} :
          LET pulled == AfterPull(files, pull, produced)
              found == ChartFiles(chart, version, pulled)
          IN \E chosen \in (IF pull = "ok" /\ found # {} THEN found ELSE {<<>>}) :
             LET ret == migrate_chart_version(pull, chosen # <<>>, push)
                 pushed == pull = "ok" /\ chosen # <<>>
             IN /\ pull # "ok" => produced = <<>>
                /\ ~pushed => push = "ok"
                /\ ~(pushed /\ push \in {"ok", "nonzero"}) => rm = "ok"
                /\ ret = "kbint" => sleep = "ok"
                /\ files' = AfterTransfer(pulled, pull, chosen, push, rm)
                /\ last' = [op |-> "transfer", chart |-> chart, tag |-> version,
                            pull |-> pull, produced |-> produced, chosen |-> chosen,
                            push |-> IF pushed THEN push ELSE "unasked",
                            rm |-> rm, ret |-> ret]
                /\ interrupted' = (interrupted \/ ret = "kbint" \/ sleep = "kbint")
                /\ IF ret = "kbint" \/ sleep = "kbint"
                   THEN Raise("kbint")
                   ELSE LoopStep(version, ret)
    /\ cls' = NoCls
    /\ UNCHANGED envVars

\* A status computation that tests success_count > 0 first.
chart_status_partial_first(success, total) ==
    IF success > 0 THEN "partial"
    ELSE IF success = total THEN "complete"
    ELSE "failed"

\* migrate_chart, lines 418-426.
chart_status(success, total) ==
    IF success = total THEN "complete"
    ELSE IF success > 0 THEN "partial"
    ELSE "failed"

\* migrate_chart, lines 414-435: the cleanup, the status and the result.
Summarize ==
    /\ pc = "summarize"
    /\ \E kept \in cleanup_local_files(files), a \in {"ok", "kbint"} :
          /\ files' = kept
          /\ interrupted' = (interrupted \/ a = "kbint")
          /\ IF a = "ok"
             THEN FinishChart([chart |-> CHARTS[ci], total |-> Len(versions),
                               success |-> success_count,
                               status |-> chart_status(success_count, Len(versions))])
             ELSE Raise("kbint")
    /\ last' = [op |-> "cleanup", site |-> "post_chart",
                versions |-> versions, calls |-> calls]
    /\ cls' = NoCls
    /\ UNCHANGED envVars

\* run_migration, lines 473-477, and main's return: exit status 0.
Report ==
    /\ pc = "report"
    /\ \E a \in {"ok", "kbint"} :
          /\ interrupted' = (interrupted \/ a = "kbint")
          /\ IF a = "ok"
             THEN /\ pc' = "exited"
                  /\ exitCode' = "0"
                  /\ UNCHANGED <<ci, results>>
                  /\ UNCHANGED ctlVars
             ELSE Raise("kbint") /\ UNCHANGED exitCode
    /\ last' = [op |-> "report"]
    /\ cls' = NoCls
    /\ UNCHANGED <<skopeoPresent, deps, preCleaned, files>>

Next ==
    \/ Construct
    \/ CheckDependencies
    \/ PreCleanup
    \/ ListSkopeo
    \/ ListApi
    \/ PullProbe
    \/ InspectProbe
    \/ CopyProbe
    \/ Transfer
    \/ Summarize
    \/ Report
    \/ ExceptKeyboardInterrupt
    \/ ExceptException

Spec == Init /\ [][Next]_vars

TypeOK ==
    /\ pc \in {"construct", "check_deps", "pre_cleanup", "list_skopeo",
               "filter_skopeo", "list_api", "filter_api", "fallback", "transfer",
               "summarize", "report", "except_kbint", "except_exception", "exited"}
    /\ exitCode \in {"running", "0", "1"}
    /\ ci \in 0..Len(CHARTS)
    /\ Len(results) <= Len(CHARTS)

\* ================================================================ claims

\* What the classifier or a listing can raise past its own except clauses.
RaiseKinds == {"raise", "FileNotFoundError"}

\* ---------------------------------------------------------------- C1
\* C1: when the pull-probe gives a confident negative (helm pull fails and
\* its error text holds one of the known phrases), _is_helm_chart returns
\* false: the inspect-probe and the copy-probe do not turn it positive.
C1_PullNegativeWins ==
    cls.pull = "confident_negative" => cls.verdict # "true"

\* ---------------------------------------------------------------- C2
\* C2: in every chart result 0 <= success <= total, and the status is the
\* one (success, total) determines: complete iff success = total > 0,
\* failed iff success = 0 < total, partial iff 0 < success < total, the
\* no-qualifying-versions status iff total = 0.
C2_StatusDetermined ==
    \A i \in 1..Len(results) :
        LET r == results[i] IN
        /\ r.success >= 0
        /\ r.success <= r.total
        /\ r.status \in {"complete", "partial", "failed", "no_helm_versions"}
        /\ r.status = "complete" <=> (r.success = r.total /\ r.total > 0)
        /\ r.status = "failed" <=> (r.success = 0 /\ r.total > 0)
        /\ r.status = "partial" <=> (0 < r.success /\ r.success < r.total)
        /\ r.status = "no_helm_versions" <=> r.total = 0

\* A chart was migrated in part: two tags, one transferred.
C2_Witness ==
    \E i \in 1..Len(results) :
        results[i].status = "partial" /\ results[i].total = 2 /\ results[i].success = 1

\* ---------------------------------------------------------------- C3
\* C3: once the dependency check has passed and no interrupt occurs, the
\* run ends with exit status 0 and one result for every configured chart,
\* in order: no failure inside a chart's listing, classification or
\* transfer aborts the chart loop.
C3_LoopCompletes ==
    (pc = "exited" /\ deps = "true" /\ ~interrupted) =>
        /\ exitCode = "0"
        /\ Len(results) = Len(CHARTS)
        /\ \A i \in 1..Len(results) : results[i].chart = CHARTS[i]

\* ---------------------------------------------------------------- C4
\* C4: when migrate_chart_version has downloaded an archive and returns
\* true or false (the delete call not failing), the archive it downloaded
\* is no longer in the working directory.
C4_ArchiveRemoved ==
    (/\ last.op = "transfer"
     /\ last.produced # <<>>
     /\ last.rm = "ok"
     /\ last.ret \in {"true", "false"}) => last.produced \notin files

\* ---------------------------------------------------------------- C5
\* C5: migrate_chart_version lets no exception escape: whatever the pull
\* and the push do (non-zero exit, raising, no local archive found), it
\* returns a boolean, and it returns true only if the pull exited zero, a
\* local archive was found and the push exited zero.  (Only an interrupt,
\* which is no exception, leaves it otherwise.)
C5_TransferReturnsBool ==
    last.op = "transfer" =>
        /\ last.ret \in {"true", "false", "kbint"}
        /\ last.ret = "kbint" => (last.pull = "kbint" \/ last.push = "kbint")
        /\ (last.pull \in {"nonzero", "raise"} \/ last.push \in {"nonzero", "raise"}
              \/ (last.pull = "ok" /\ last.chosen = <<>>)) => last.ret = "false"
        /\ last.ret = "true" =>
              (last.pull = "ok" /\ last.chosen # <<>> /\ last.push = "ok")

\* The push raised, and the transfer returned false.
C5_Witness ==
    last.op = "transfer" /\ last.push = "raise" /\ last.ret = "false"

\* ---------------------------------------------------------------- C6
\* C6: an interrupt arriving at any stage leads to the cleanup pass of
\* main's handler and to exit status 1; the run does not go on.
C6_InterruptStops ==
    interrupted =>
        /\ pc \in {"except_kbint", "exited"}
        /\ pc = "exited" =>
              (exitCode = "1" /\ last = [op |-> "cleanup", site |-> "except_kbint"])

\* ---------------------------------------------------------------- C7
\* C7: when the classifier raises for one candidate tag, that tag alone is
\* excluded: the filter goes on to the next candidate with the tags
\* accepted so far, or, after the last candidate, returns them.
C7_RaiseExcludesTag ==
    [][(pc \in {"filter_skopeo", "filter_api"} /\ cls'.verdict \in RaiseKinds) =>
          /\ pc' \notin {"except_exception", "except_kbint"}
          /\ (idx < Len(all_tags) /\ all_tags[idx + 1] # NoName) =>
                /\ pc' = pc
                /\ all_tags' = all_tags
                /\ idx' = idx + 1
                /\ helm_versions' = helm_versions
          /\ (idx = Len(all_tags) /\ helm_versions # <<>>) =>
                (pc' = "transfer" /\ versions' = helm_versions)]_vars

C9_PreFlight ==
    /\ deps = "false" =>
          /\ pc = "exited"
          /\ exitCode = "1"
          /\ last = [op |-> "check_dependencies", ret |-> "false"]
          /\ ~preCleaned
          /\ ci = 0
          /\ results = <<>>
    /\ deps \in {"raise", "kbint"} =>
          /\ pc \in {"except_exception", "except_kbint", "exited"}
          /\ pc = "exited" => exitCode = "1"
          /\ ~preCleaned
          /\ ci = 0
    /\ pc \in {"list_skopeo", "filter_skopeo", "list_api", "filter_api", "fallback",
               "transfer", "summarize", "report"} =>
          (deps = "true" /\ preCleaned /\ ci >= 1)
    /\ (ci >= 1 \/ results # <<>>) => (deps = "true" /\ preCleaned)

\* The check failed and the run has ended.
C9_Witness ==
    deps = "false" /\ pc = "exited" /\ exitCode = "1"

\* --------------------------------------------------------------- C10
\* The stage of migrate_chart a position belongs to.
StageOf(p) ==
    IF p \in {"list_skopeo", "list_api"} THEN "listing"
    ELSE IF p \in {"filter_skopeo", "filter_api", "fallback"} THEN "filtering"
    ELSE IF p = "transfer" THEN "transferring"
    ELSE IF p = "summarize" THEN "summarizing"
    ELSE "none"

\* C10: every chart goes through listing, filtering, transferring and
\* summarizing in that order and skips none: a chart's result comes from
\* the summarizing stage (the post-chart cleanup and the status), also when
\* no tag qualifies.  (Listing and filtering count as one stage pair here,
\* and a step that raises is left out.)
C10_StagesInOrder ==
    [][(StageOf(pc) # "none" /\ pc' \notin {"except_exception", "except_kbint"}) =>
          /\ (Len(results') > Len(results)) => pc = "summarize"
          /\ (Len(results') = Len(results)) =>
                <<StageOf(pc), StageOf(pc')>> \in
                    {<<"listing", "listing">>, <<"listing", "filtering">>,
                     <<"filtering", "filtering">>, <<"filtering", "listing">>,
                     <<"filtering", "transferring">>,
                     <<"transferring", "transferring">>,
                     <<"transferring", "summarizing">>}]_vars

\* ---------------------------------------------------------------- C11
\* The tags of a list of calls, and the number of them that returned true.
CallTags(cs) == [i \in 1..Len(cs) |-> cs[i].tag]

CallsTrue(cs) == Cardinality({i \in 1..Len(cs) : cs[i].ret = "true"})

\* C11: for a chart whose qualifying tag list is versions, migrate_chart
\* calls migrate_chart_version once for each tag, in list order: while the
\* loop runs the calls made are those for the tags before the current one,
\* after it they are exactly those for versions, so no failed call has
\* stopped it; the call a step of the loop made is for the chart and its
\* current tag and returned true or false; success_count is the number of
\* calls that returned true; and the result migrate_chart returns has
\* total = Len(versions) and success = that number.
C11_TransferLoop ==
    /\ pc = "transfer" =>
          /\ vi \in 1..Len(versions)
          /\ CallTags(calls) = SubSeq(versions, 1, vi - 1)
          /\ success_count = CallsTrue(calls)
    /\ pc = "summarize" =>
          /\ CallTags(calls) = versions
          /\ success_count = CallsTrue(calls)
    /\ (last.op = "transfer" /\ pc \in {"transfer", "summarize"}) =>
          /\ last.chart = CHARTS[ci]
          /\ last.ret \in {"true", "false"}
          /\ calls[Len(calls)] = [tag |-> last.tag, ret |-> last.ret]
    /\ (last.op = "cleanup" /\ last.site = "post_chart"
        /\ pc \in {"list_skopeo", "report"}) =>
          LET r == results[Len(results)] IN
          /\ CallTags(last.calls) = last.versions
          /\ r.total = Len(last.versions)
          /\ r.success = CallsTrue(last.calls)

\* Tag 1.0.0 was transferred, tag 2.0.0 failed, and the loop is over.
C11_Witness ==
    /\ pc = "summarize"
    /\ calls = <<[tag |-> "1.0.0", ret |-> "true"],
                 [tag |-> "2.0.0", ret |-> "false"]>>
    /\ success_count = 1

\* ---------------------------------------------------------------- C12
\* C12: the archive a call of migrate_chart_version hands to `helm push` is
\* the archive that the same call's `helm pull` wrote, whatever earlier
\* transfers left in the working directory: the file the lookup selects is
\* the download, and at the least an archive named for the call's own
\* chart and tag, never one of a different tag or of another chart.
C12_UploadsOwnDownload ==
    (last.op = "transfer" /\ last.push # "unasked") =>
        \/ last.chosen = last.produced
        \/ last.chosen = ArchiveName(last.chart, last.tag)

====
